---- MODULE Spec2Model ----
(***************************************************************************)
(* A model of VideoManager's thumbnail pipeline:                           *)
(*   - ThumbnailGenerator  (src/thumbnail_generator.py)                    *)
(*   - ThumbnailLoader     (src/thumbnail_loader.py), the worker pool      *)
(*   - UIPreview's timeline generation (src/ui_preview.py)                 *)
(* Threads are modelled by a program counter per thread; one action is one *)
(* atomic step of the Python code (a queue operation, a set operation, one *)
(* blocking call returning).                                               *)
(***************************************************************************)
EXTENDS Integers, Sequences, FiniteSets, TLC

\* ------------------------------------------------------------------ bounds
NumPaths == 1        \* distinct source paths presented to the loader
MaxWorkers == 3      \* max_workers, the pool size the program uses
MaxEnqueue == 3      \* queue_thumbnail calls made over a run
MaxShutdowns == 2    \* shutdown() calls made over a run

NumSources == 2      \* distinct source paths handed to the generator
MaxCalls == 3        \* generator calls made one after the other
MaxSeconds == 200    \* longest duration, in seconds, a frame plan is made for
MaxPathLen == 4      \* longest source path, in characters, that is classified
MaxIndex == 1        \* largest frame index asked for directly
MaxStamp == 0        \* largest timestamp asked for directly, in seconds

NumItems == 2        \* distinct video records selectable in the preview
MaxRuns == 2         \* timeline generation threads started over a run
MaxMinutes == 2      \* longest probed duration, in minutes

Paths == 1..NumPaths
Sources == 1..NumSources
Items == 1..NumItems
Runs == 1..MaxRuns
Workers == 1..MaxWorkers

\* Path(video_path).stem: the source's base name without its extension.
\* Sources 1 and 2 are files of the same name in different folders.
Stem(p) == (p + 1) \div 2
Stems == {Stem(p) : p \in Paths \cup Sources}

NoPath == "None"
Tools == {"ffmpeg", "ffprobe"}

\* Values of a worker's local variable `photo`.
Unbound == -1        \* the name is not bound yet (first loop iteration)
NoPhoto == 0         \* photo = None

\* What a call of generate_thumbnail gave back: the stem of the thumbnail
\* path it returned, or one of these.
ReturnedNone == 0
Raised == -1         \* an exception left the call

VARIABLES
    \* --- environment
    installed,        \* the external tools present on this machine
    videoExists,      \* the source paths that exist on disk
    \* --- ThumbnailGenerator (class state and the on-disk artifact cache)
    FFMPEG_PATH, FFPROBE_PATH,
    thumbFiles,       \* stem -> 0 (no <stem>_thumb.jpg) or the source it shows
    frameFiles,       \* the files in the <stem>_timeline directories
    \* --- ThumbnailLoader
    request_queue,    \* sequence of requested paths; 0 is the None sentinel
    unfinished_tasks, \* queue.Queue's count of items put and not task_done
    thumbnail_cache,  \* path -> 0 (absent) or the decoded handle
    loading_set,
    is_running,
    pc, req, photo, thumb_path, exc,   \* per worker thread
    \* --- the calls made and answered (bookkeeping of the model)
    calls,            \* path -> queue_thumbnail calls made for it
    pushed,           \* path -> requests put on the queue for it
    cbWorker,         \* path -> callbacks a worker invoked for it
    cbSync,           \* path -> callbacks queue_thumbnail invoked itself
    syncArg,          \* path -> the handle the last of those was given
    \* --- shutdown(), running on the UI thread
    sdpc, joinIdx,
    shutdowns,        \* shutdown() calls begun
    \* --- UIPreview: timeline generation
    FFMPEG_AVAILABLE, \* module flag of ui_preview.py, set at import
    itemExists,       \* the items whose file exists on disk
    timeline_cache,   \* item -> NoEntry or [frames, duration]
    timeline_stop_event,
    timeline_generation_thread,   \* 0 (None) or the run last started
    uipc, selItem,    \* _generate_timeline_threaded on the UI thread
    selected,         \* the item of the selection handled last (0: none)
    rpc, rItem, rDur, rI, rFrames,   \* per generation thread
    rRequested,       \* run -> frames its fallback asked the extractor for
    cancelledAt,      \* run -> -1, or the first frame index whose flag
                      \* check came after the flag was set for the run
    \* --- the generator called directly, one call after the other
    genLog            \* the calls made, one record each; a
                      \* cleanup_cache() is logged with source 0

envVars == <<installed, videoExists>>
genVars == <<FFMPEG_PATH, FFPROBE_PATH, thumbFiles, frameFiles>>
queueVars == <<request_queue, unfinished_tasks>>
workerVars == <<pc, req, photo, thumb_path, exc>>
reqVars == <<calls, pushed, cbWorker, cbSync, syncArg>>
sdVars == <<sdpc, joinIdx, shutdowns>>
loaderVars == <<queueVars, thumbnail_cache, loading_set, is_running,
                workerVars, reqVars, sdVars>>
runVars == <<rpc, rItem, rDur, rI, rFrames, rRequested>>
uiVars == <<uipc, selItem, selected>>
timelineVars == <<FFMPEG_AVAILABLE, itemExists, timeline_cache,
                  timeline_stop_event, timeline_generation_thread, uiVars,
                  runVars, cancelledAt>>
vars == <<envVars, genVars, loaderVars, timelineVars, genLog>>

\* ------------------------------------------------- ThumbnailGenerator
\* _find_ffmpeg_executable: the path of the tool, or None.
FindExecutable(tool) == IF tool \in installed THEN "found" ELSE NoPath

\* One branch of _initialize_ffmpeg_paths: a path that is still None is
\* searched for (again), a path already found is kept.
Resolved(current, tool) ==
    IF current = NoPath THEN FindExecutable(tool) ELSE current

\* _initialize_ffmpeg_paths
InitializeFfmpegPaths ==
    /\ FFMPEG_PATH' = Resolved(FFMPEG_PATH, "ffmpeg")
    /\ FFPROBE_PATH' = Resolved(FFPROBE_PATH, "ffprobe")

\* A tool check that lets every call through.
Unresolved_Never(path) == FALSE

\* `if not ThumbnailGenerator.FFMPEG_PATH`, lines 304, 397 and 443.
Unresolved(path) == path = NoPath

\* A generate_thumbnail that does not look for the thumbnail on disk.
GenPrecheck_NoCacheCheck(p) ==
    IF Unresolved(Resolved(FFMPEG_PATH, "ffmpeg")) THEN "none"
    ELSE IF p \notin videoExists THEN "none"
    ELSE "miss"

\* generate_thumbnail up to the cache check (lines 302-320):
\* "none" (returns None), "hit" (returns the cached path) or "miss".
GenPrecheck(p) ==
    IF Unresolved(Resolved(FFMPEG_PATH, "ffmpeg")) THEN "none"
    ELSE IF p \notin videoExists THEN "none"
    ELSE IF thumbFiles[Stem(p)] # 0 THEN "hit"
    ELSE "miss"

\* What the duration probe of _get_video_duration can do: return a positive
\* duration, return None (no prober, exit code, parse error), or let
\* subprocess.TimeoutExpired escape (only ValueError and OSError are caught).
ProbeOutcomes ==
    IF Resolved(FFPROBE_PATH, "ffprobe") = NoPath
    THEN {"None"}
    ELSE {"duration", "None", "TimeoutExpired"}

\* What the extractor run of generate_thumbnail can do (lines 331-363).
ExtractOutcomes == {"ok", "fail", "timeout"}

NoEntry == <<>>

\* The state of the timeline pipeline after UIPreview.__init__ (lines 48-53).
TimelineIdle ==
    /\ timeline_cache = [i \in Items |-> NoEntry]
    /\ timeline_stop_event = FALSE
    /\ timeline_generation_thread = 0
    /\ uipc = "idle"
    /\ selItem = 0
    /\ selected = 0
    /\ rpc = [r \in Runs |-> "unstarted"]
    /\ rItem = [r \in Runs |-> 0]
    /\ rDur = [r \in Runs |-> 0]
    /\ rI = [r \in Runs |-> 0]
    /\ rFrames = [r \in Runs |-> <<>>]
    /\ rRequested = [r \in Runs |-> 0]
    /\ cancelledAt = [r \in Runs |-> -1]

\* ------------------------------------------------------ ThumbnailLoader
\* The state of the loader after ThumbnailLoader.__init__ (lines 33-42).
LoaderIdle ==
    /\ request_queue = <<>>
    /\ unfinished_tasks = 0
    /\ thumbnail_cache = [p \in Paths |-> 0]
    /\ loading_set = {}
    /\ is_running = TRUE
    /\ pc = [w \in Workers |-> "loop"]
    /\ req = [w \in Workers |-> 0]
    /\ photo = [w \in Workers |-> Unbound]
    /\ thumb_path = [w \in Workers |-> 0]
    /\ exc = [w \in Workers |-> "none"]
    /\ calls = [p \in Paths |-> 0]
    /\ pushed = [p \in Paths |-> 0]
    /\ cbWorker = [p \in Paths |-> 0]
    /\ cbSync = [p \in Paths |-> 0]
    /\ syncArg = [p \in Paths |-> 0]
    /\ sdpc = "idle"
    /\ joinIdx = 0
    /\ shutdowns = 0

\* The preview grid calls queue_thumbnail only for files that exist and with
\* both tools available (ui_preview.py lines 320-323).
Init ==
    /\ installed = Tools
    /\ videoExists = Paths
    /\ FFMPEG_PATH = NoPath
    /\ FFPROBE_PATH = NoPath
    /\ thumbFiles = [s \in Stems |-> 0]
    /\ frameFiles = {}
    /\ LoaderIdle
    /\ FFMPEG_AVAILABLE = TRUE
    /\ itemExists = Items
    /\ TimelineIdle
    /\ genLog = <<>>

Terminated(w) == pc[w] \in {"exited", "dead"}

\* The callback is the requester's code: it returns, or raises something
\* the worker catches next to the call (RuntimeError, TclError), something
\* only the loop's outer handler catches (ValueError), or anything else.
CallbackOutcomes == {"ok", "RuntimeError", "ValueError", "TypeError"}

RECURSIVE Sum(_, _)
Sum(f, S) == IF S = {} THEN 0
             ELSE LET x == CHOOSE y \in S : TRUE IN f[x] + Sum(f, S \ {x})

\* A queue_thumbnail that never finds the path in the handle cache.
InCache_Never(p) == FALSE

\* video_path in self.thumbnail_cache  (line 121)
InCache(p) == thumbnail_cache[p] # 0

\* queue_thumbnail(video_path, callback), lines 113-130, on the UI thread.
queue_thumbnail(p) ==
    /\ sdpc # "joining"
    /\ Sum(calls, Paths) < MaxEnqueue
    /\ calls' = [calls EXCEPT ![p] = @ + 1]
    /\ IF InCache(p)
       THEN \* callback(video_path, self.thumbnail_cache[video_path]); return
            /\ cbSync' = [cbSync EXCEPT ![p] = @ + 1]
            /\ syncArg' = [syncArg EXCEPT ![p] = thumbnail_cache[p]]
            /\ UNCHANGED <<queueVars, pushed>>
       ELSE IF p \in loading_set
       THEN UNCHANGED <<queueVars, pushed, cbSync, syncArg>>
       ELSE /\ request_queue' = Append(request_queue, p)
            /\ unfinished_tasks' = unfinished_tasks + 1
            /\ pushed' = [pushed EXCEPT ![p] = @ + 1]
            /\ UNCHANGED <<cbSync, syncArg>>
    /\ UNCHANGED <<envVars, genVars, thumbnail_cache, loading_set, is_running,
                   workerVars, cbWorker, sdVars>>
    /\ UNCHANGED <<timelineVars, genLog>>

\* What decoding the artifact (Image.open, resize, ImageTk.PhotoImage) can
\* do: succeed, raise OSError/ValueError (caught next to it), or raise
\* something else, such as the RuntimeError Tk raises off the main thread.
DecodeOutcomes == {"ok", "OSError", "RuntimeError"}

PathOf(w) == req[w]

\* The worker leaves the current iteration: back to the while test, or out of
\* the thread on an exception nothing catches.
Leave(w, to) ==
    /\ pc' = [pc EXCEPT ![w] = to]
    /\ req' = [req EXCEPT ![w] = 0]
    /\ thumb_path' = [thumb_path EXCEPT ![w] = 0]
    /\ exc' = [exc EXCEPT ![w] = "none"]

\* while self.is_running  (line 58)
WorkerLoop(w) ==
    /\ pc[w] = "loop"
    /\ pc' = [pc EXCEPT ![w] = IF is_running THEN "get" ELSE "exited"]
    /\ UNCHANGED <<envVars, genVars, queueVars, thumbnail_cache, loading_set,
                   is_running, req, photo, thumb_path, exc, reqVars, sdVars>>
    /\ UNCHANGED <<timelineVars, genLog>>

\* request = self.request_queue.get(timeout=1.0)  (lines 61-66, 108-109)
WorkerGet(w) ==
    /\ pc[w] = "get"
    /\ IF request_queue = <<>>
       THEN \* queue.Empty: continue
            /\ pc' = [pc EXCEPT ![w] = "loop"]
            /\ UNCHANGED <<request_queue, req>>
       ELSE /\ request_queue' = Tail(request_queue)
            /\ IF Head(request_queue) = 0
               THEN \* the sentinel: break
                    /\ pc' = [pc EXCEPT ![w] = "exited"]
                    /\ UNCHANGED req
               ELSE /\ pc' = [pc EXCEPT ![w] = "check"]
                    /\ req' = [req EXCEPT ![w] = Head(request_queue)]
    /\ UNCHANGED <<envVars, genVars, unfinished_tasks, thumbnail_cache,
                   loading_set, is_running, photo, thumb_path, exc, reqVars,
                   sdVars>>
    /\ UNCHANGED <<timelineVars, genLog>>

\* if video_path in self.loading_set: task_done(); continue  (lines 70-72).
\* The continue sits inside the try, so the finally block runs before the
\* next iteration.  A task_done() that raises ValueError there is caught by
\* the except clause of line 94.
WorkerCheck(w) ==
    /\ pc[w] = "check"
    /\ IF PathOf(w) \in loading_set
       THEN /\ pc' = [pc EXCEPT ![w] = "finally"]
            /\ IF unfinished_tasks > 0
               THEN /\ unfinished_tasks' = unfinished_tasks - 1
                    /\ exc' = [exc EXCEPT ![w] = "continue"]
                    /\ UNCHANGED photo
               ELSE /\ photo' = [photo EXCEPT ![w] = NoPhoto]
                    /\ exc' = [exc EXCEPT ![w] = "duplicate"]
                    /\ UNCHANGED unfinished_tasks
       ELSE /\ pc' = [pc EXCEPT ![w] = "add"]
            /\ UNCHANGED <<unfinished_tasks, exc, photo>>
    /\ UNCHANGED <<envVars, genVars, request_queue, thumbnail_cache,
                   loading_set, is_running, req, thumb_path, reqVars,
                   sdVars>>
    /\ UNCHANGED <<timelineVars, genLog>>

\* self.loading_set.add(video_path), line 74, and the call of
\* ThumbnailGenerator.generate_thumbnail(video_path), line 77, up to the start
\* of the extractor: tool lookup, the checks, the cache hit and the duration
\* probe (generator lines 302-328).  Nothing another thread does in between
\* reads what the add writes and writes what the checks read, so the two are
\* one step.
WorkerGenerate(w) ==
    /\ pc[w] = "add"
    /\ loading_set' = loading_set \cup {PathOf(w)}
    /\ InitializeFfmpegPaths
    /\ CASE GenPrecheck(PathOf(w)) = "none" ->
              /\ thumb_path' = [thumb_path EXCEPT ![w] = 0]
              /\ pc' = [pc EXCEPT ![w] = "decode"]
              /\ UNCHANGED exc
         [] GenPrecheck(PathOf(w)) = "hit" ->
              /\ thumb_path' = [thumb_path EXCEPT ![w] = Stem(PathOf(w))]
              /\ pc' = [pc EXCEPT ![w] = "decode"]
              /\ UNCHANGED exc
         [] OTHER ->
              \E probe \in ProbeOutcomes :
                 IF probe = "TimeoutExpired"
                 THEN /\ exc' = [exc EXCEPT ![w] = "TimeoutExpired"]
                      /\ pc' = [pc EXCEPT ![w] = "finally"]
                      /\ UNCHANGED thumb_path
                 ELSE /\ pc' = [pc EXCEPT ![w] = "extracting"]
                      /\ UNCHANGED <<exc, thumb_path>>
    /\ UNCHANGED <<envVars, thumbFiles, queueVars, thumbnail_cache,
                   is_running, req, photo, reqVars, sdVars>>
    /\ UNCHANGED <<timelineVars, genLog, frameFiles>>

\* The extractor run of generate_thumbnail returns (generator lines 343-363).
WorkerExtract(w) ==
    /\ pc[w] = "extracting"
    /\ \E out \in ExtractOutcomes :
          IF out = "ok"
          THEN /\ thumbFiles' = [thumbFiles EXCEPT ![Stem(PathOf(w))] = PathOf(w)]
               /\ thumb_path' = [thumb_path EXCEPT ![w] = Stem(PathOf(w))]
          ELSE /\ thumb_path' = [thumb_path EXCEPT ![w] = 0]
               /\ UNCHANGED thumbFiles
    /\ pc' = [pc EXCEPT ![w] = "decode"]
    /\ UNCHANGED <<envVars, FFMPEG_PATH, FFPROBE_PATH, queueVars,
                   thumbnail_cache, loading_set, is_running, req, photo, exc,
                   reqVars, sdVars>>
    /\ UNCHANGED <<timelineVars, genLog, frameFiles>>

\* Lines 79-99: decode the artifact and cache the handle, or photo = None;
\* then the finally block's self.loading_set.discard(video_path).
WorkerDecode(w) ==
    /\ pc[w] = "decode"
    /\ IF thumb_path[w] # 0 /\ thumbFiles[thumb_path[w]] # 0
       THEN \E out \in DecodeOutcomes :
               CASE out = "ok" ->
                      /\ photo' = [photo EXCEPT ![w] = thumbFiles[thumb_path[w]]]
                      /\ thumbnail_cache' = [thumbnail_cache EXCEPT
                             ![PathOf(w)] = thumbFiles[thumb_path[w]]]
                      /\ UNCHANGED exc
                 [] out = "OSError" ->
                      /\ photo' = [photo EXCEPT ![w] = NoPhoto]
                      /\ UNCHANGED <<thumbnail_cache, exc>>
                 [] OTHER ->
                      /\ exc' = [exc EXCEPT ![w] = "RuntimeError"]
                      /\ UNCHANGED <<thumbnail_cache, photo>>
       ELSE /\ photo' = [photo EXCEPT ![w] = NoPhoto]
            /\ UNCHANGED <<thumbnail_cache, exc>>
    /\ loading_set' = loading_set \ {PathOf(w)}
    /\ pc' = [pc EXCEPT ![w] = "callback"]
    /\ UNCHANGED <<envVars, genVars, queueVars, is_running, req,
                   thumb_path, reqVars, sdVars>>
    /\ UNCHANGED <<timelineVars, genLog>>

\* finally: self.loading_set.discard(video_path), line 99, reached by the
\* continue of line 72 or by an exception out of generate_thumbnail.
WorkerFinally(w) ==
    /\ pc[w] = "finally"
    /\ loading_set' = loading_set \ {PathOf(w)}
    /\ pc' = [pc EXCEPT ![w] = "callback"]
    /\ UNCHANGED <<envVars, genVars, queueVars, thumbnail_cache, is_running,
                   req, photo, thumb_path, exc, reqVars, sdVars>>
    /\ UNCHANGED <<timelineVars, genLog>>

\* self.request_queue.task_done(), line 106, then whatever was pending: the
\* continue, or the exception the finally block interrupted, which the outer
\* handlers of lines 108-111 catch or not.
TaskDone(w) ==
    IF unfinished_tasks = 0
    THEN \* ValueError: task_done() called too many times; caught at line 110
         /\ Leave(w, "loop")
         /\ UNCHANGED unfinished_tasks
    ELSE /\ unfinished_tasks' = unfinished_tasks - 1
         /\ Leave(w, IF exc[w] = "TimeoutExpired" THEN "dead" ELSE "loop")

\* finally: callback(video_path, photo) and task_done(), lines 101-106.
\* Reading a photo that was never bound raises UnboundLocalError, which
\* nothing catches.
WorkerCallback(w) ==
    /\ pc[w] = "callback"
    /\ IF photo[w] = Unbound
       THEN /\ Leave(w, "dead")
            /\ UNCHANGED <<cbWorker, unfinished_tasks>>
       ELSE /\ cbWorker' = [cbWorker EXCEPT ![PathOf(w)] = @ + 1]
            /\ \E out \in CallbackOutcomes :
                  CASE out \in {"ok", "RuntimeError"} -> TaskDone(w)
                    [] out = "ValueError" ->
                         /\ Leave(w, "loop")
                         /\ UNCHANGED unfinished_tasks
                    [] OTHER ->
                         /\ Leave(w, "dead")
                         /\ UNCHANGED unfinished_tasks
    /\ UNCHANGED <<envVars, genVars, request_queue, thumbnail_cache,
                   loading_set, is_running, photo, calls, pushed, cbSync,
                   syncArg, sdVars>>
    /\ UNCHANGED <<timelineVars, genLog>>

\* thread.join(timeout=2.0) can give up on a worker only while that worker is
\* inside a call that may last longer: the extractor run (30 s timeout).
JoinMayTimeOut(w) == pc[w] = "extracting"

\* shutdown(), lines 148-156: the flag and one sentinel per worker.
ShutdownBegin ==
    /\ sdpc \in {"idle", "done"}
    /\ shutdowns < MaxShutdowns
    /\ shutdowns' = shutdowns + 1
    /\ is_running' = FALSE
    /\ request_queue' = request_queue \o [i \in 1..MaxWorkers |-> 0]
    /\ unfinished_tasks' = unfinished_tasks + MaxWorkers
    /\ sdpc' = "joining"
    /\ joinIdx' = 1
    /\ UNCHANGED <<envVars, genVars, thumbnail_cache, loading_set, workerVars,
                   reqVars>>
    /\ UNCHANGED <<timelineVars, genLog>>

\* shutdown(), lines 159-160: join the workers one after the other.
ShutdownJoin ==
    /\ sdpc = "joining"
    /\ joinIdx \in Workers
    /\ Terminated(joinIdx) \/ JoinMayTimeOut(joinIdx)
    /\ joinIdx' = joinIdx + 1
    /\ UNCHANGED <<envVars, genVars, queueVars, thumbnail_cache, loading_set,
                   is_running, workerVars, reqVars, sdpc, shutdowns>>
    /\ UNCHANGED <<timelineVars, genLog>>

\* shutdown(), lines 162-165: clear_cache() and return.
ShutdownReturn ==
    /\ sdpc = "joining"
    /\ joinIdx > MaxWorkers
    /\ thumbnail_cache' = [p \in Paths |-> 0]
    /\ sdpc' = "done"
    /\ UNCHANGED <<envVars, genVars, queueVars, loading_set, is_running,
                   workerVars, reqVars, joinIdx, shutdowns>>
    /\ UNCHANGED <<timelineVars, genLog>>

Next ==
    \/ \E p \in Paths : queue_thumbnail(p)
    \/ \E w \in Workers : WorkerLoop(w)
    \/ \E w \in Workers : WorkerGet(w)
    \/ \E w \in Workers : WorkerCheck(w)
    \/ \E w \in Workers : WorkerGenerate(w)
    \/ \E w \in Workers : WorkerExtract(w)
    \/ \E w \in Workers : WorkerDecode(w)
    \/ \E w \in Workers : WorkerFinally(w)
    \/ \E w \in Workers : WorkerCallback(w)
    \/ ShutdownBegin
    \/ ShutdownJoin
    \/ ShutdownReturn

Spec == Init /\ [][Next]_vars

\* ------------------------------------------- UIPreview: timeline generation
\* Rounding that takes a tie upwards.
Round_HalfUp(num, den) == (2 * num + den) \div (2 * den)

\* round(x) of Python 3 for x = num/den >= 0: to the nearest integer, a tie
\* to the even one.
Round(num, den) ==
    LET q == num \div den
        r == num % den
    IN  IF 2 * r < den THEN q
        ELSE IF 2 * r > den THEN q + 1
        ELSE IF q % 2 = 0 THEN q ELSE q + 1

Max(a, b) == IF a >= b THEN a ELSE b
Min(a, b) == IF a <= b THEN a ELSE b

FrameCap == 120

\* num_frames of _load_timeline (lines 477-479) for a duration in seconds.
NumFrames(duration) == Min(Max(1, Round(duration, 60)), FrameCap)

\* The durations the prober reports in this model, in seconds.
ProbedDurations == {60 * m : m \in 1..MaxMinutes}

\* The duration of an item's file, which every successful probe of it reports.
ItemDuration(item) == 60 * (((item - 1) % MaxMinutes) + 1)

\* The frames a run asks for, once it has probed a duration.
rN(r) == NumFrames(rDur[r])

Alive(r) == rpc[r] \in {"start", "loop", "extract", "fallback", "post"}
Ended(r) == rpc[r] \in {"completed", "failed", "updated", "cancelled", "crashed"}

\* threading.Event.set() on timeline_stop_event: every live run that has a flag
\* check ahead of it is told to stop; the model notes the frame index of
\* that check.
FlagSet ==
    /\ timeline_stop_event' = TRUE
    /\ cancelledAt' = [r \in Runs |->
          IF cancelledAt[r] # -1 THEN cancelledAt[r]
          ELSE IF rpc[r] = "start" THEN 0
          ELSE IF rpc[r] = "loop" /\ rI[r] < rN(r) THEN rI[r]
          ELSE IF rpc[r] = "extract" /\ rI[r] + 1 < rN(r) THEN rI[r] + 1
          ELSE -1]

\* A check that finds no timeline cached.
CachedTimeline_Never(item) == FALSE

\* `video_id in self.timeline_cache`, line 415.
CachedTimeline(item) == timeline_cache[item] # NoEntry

\* _generate_timeline_threaded, lines 412-423: the cached timeline is shown at
\* once; otherwise the stop event is set and the previous thread joined.
SelectBegin(item) ==
    /\ uipc = "idle"
    /\ IF CachedTimeline(item)
       THEN /\ selected' = item
            /\ UNCHANGED <<uipc, selItem, timeline_stop_event, cancelledAt>>
       ELSE /\ \E r \in Runs : rpc[r] = "unstarted"
            /\ FlagSet
            /\ uipc' = "join"
            /\ selItem' = item
            /\ UNCHANGED selected
    /\ UNCHANGED <<FFMPEG_AVAILABLE, itemExists, timeline_cache,
                   timeline_generation_thread, runVars>>
    /\ UNCHANGED <<envVars, genVars, loaderVars, genLog>>

\* A join without a timeout: it waits for the thread to end.
TimelineJoinMayTimeOut_Never(r) == FALSE

\* join(timeout=1.0) can give up on the previous thread only while that thread
\* is inside an external-tool call: the probe (5 s), the extraction of a frame
\* (30 or 60 s an attempt) or the fallback's batch of them.
TimelineJoinMayTimeOut(r) == rpc[r] \in {"start", "extract", "fallback"}

NextRun == CHOOSE r \in Runs : rpc[r] = "unstarted" /\
                \A q \in Runs : rpc[q] = "unstarted" => r <= q

\* _generate_timeline_threaded, lines 424-439: the join returns, the stop
\* event is cleared and a new thread is started.
SelectStart ==
    /\ uipc = "join"
    /\ IF timeline_generation_thread = 0 THEN TRUE
       ELSE \/ ~Alive(timeline_generation_thread)
            \/ TimelineJoinMayTimeOut(timeline_generation_thread)
    /\ timeline_stop_event' = FALSE
    /\ timeline_generation_thread' = NextRun
    /\ rpc' = [rpc EXCEPT ![NextRun] = "start"]
    /\ rItem' = [rItem EXCEPT ![NextRun] = selItem]
    /\ uipc' = "idle"
    /\ selected' = selItem
    /\ selItem' = 0
    /\ UNCHANGED <<FFMPEG_AVAILABLE, itemExists, timeline_cache, rDur, rI,
                   rFrames, cancelledAt, rRequested>>
    /\ UNCHANGED <<envVars, genVars, loaderVars, genLog>>

\* ------------------------------------------------ slow-storage detection
\* Source paths as text: sequences of characters over a small alphabet.
Alphabet == {"u", "s", "b", "U", "B", "/"}
PathTexts == UNION {[1..n -> Alphabet] : n \in 1..MaxPathLen}

\* str.lower(), character by character.
LowerChar(c) == CASE c = "U" -> "u" [] c = "B" -> "b" [] OTHER -> c
Lower(text) == [k \in 1..Len(text) |-> LowerChar(text[k])]

\* `sub in text` of Python: sub occurs in text as a contiguous run.
Contains(text, sub) ==
    \E k \in 0..(Len(text) - Len(sub)) :
        SubSeq(text, k + 1, k + Len(sub)) = sub

\* slow_indicators (lines 157-179), those that can be spelled in Alphabet.
slow_indicators == {<<"u", "s", "b">>}

\* _is_slow_storage, lines 145-182.
IsSlowStorage(text) ==
    \E indicator \in slow_indicators : Contains(Lower(text), indicator)

\* _get_frame_timeout, lines 184-198, in seconds.
GetFrameTimeout(text) == IF IsSlowStorage(text) THEN 60 ELSE 30

\* num_frames of generate_timeline_frames after lines 457-464.
ReducedFrames(text, num_frames) ==
    IF IsSlowStorage(text) THEN Max(3, num_frames \div 2) ELSE num_frames

\* num_frames=8, what _load_timeline passes to generate_timeline_frames.
FallbackFrames == 8

\* Where a video file lives.  Sources 2k-1 and 2k have the same file name
\* (Stem); the second of them is on a removable volume.
SourceText(p) == IF p % 2 = 0 THEN <<"U", "s", "B", "/">> ELSE <<"/">>

\* --------------------------------------------- the generation thread
\* The generation thread ends in state `how`; its locals go with it.
EndRun(r, how) ==
    /\ rpc' = [rpc EXCEPT ![r] = how]
    /\ rItem' = [rItem EXCEPT ![r] = 0]
    /\ rDur' = [rDur EXCEPT ![r] = 0]
    /\ rI' = [rI EXCEPT ![r] = 0]
    /\ rFrames' = [rFrames EXCEPT ![r] = <<>>]
    /\ rRequested' = [rRequested EXCEPT ![r] = 0]
    /\ cancelledAt' = [cancelledAt EXCEPT ![r] = -1]

\* What get_video_duration can do in _load_timeline (line 472): return None
\* (or a duration <= 0), let TimeoutExpired escape, or return a duration > 0.
TimelineProbeOutcomes == {"None", "TimeoutExpired", "duration"}

\* _load_timeline, lines 450-479: the availability checks and the duration
\* probe.  A TimeoutExpired out of the probe is caught neither at line 558
\* nor at line 445.  Without the tool or the file the run ends with
\* _update_timeline_ui(video, [], 0).
RunStart(r) ==
    /\ rpc[r] = "start"
    /\ IF ~FFMPEG_AVAILABLE \/ rItem[r] \notin itemExists
       THEN EndRun(r, "failed")
       ELSE \E probe \in TimelineProbeOutcomes :
               CASE probe = "TimeoutExpired" -> EndRun(r, "crashed")
                 [] probe = "None" ->
                      /\ rpc' = [rpc EXCEPT ![r] = "fallback"]
                      /\ UNCHANGED <<rItem, rDur, rI, rFrames, cancelledAt, rRequested>>
                 [] OTHER ->
                      /\ rpc' = [rpc EXCEPT ![r] = "loop"]
                      /\ rDur' = [rDur EXCEPT ![r] = ItemDuration(rItem[r])]
                      /\ UNCHANGED <<rItem, rI, rFrames, cancelledAt, rRequested>>
    /\ UNCHANGED <<FFMPEG_AVAILABLE, itemExists, timeline_cache,
                   timeline_stop_event, timeline_generation_thread, uiVars>>
    /\ UNCHANGED <<envVars, genVars, loaderVars, genLog>>

\* A run that takes its list of frames for non-empty whatever it holds.
HasFramePaths_Always(r) == TRUE

\* `frame_paths` as a condition, lines 530 and 538: the list is not empty.
HasFramePaths(r) == rFrames[r] # <<>>

\* The head of the for loop, lines 481-485, and what follows the loop, lines
\* 528-556: the cache entry and the final message.
RunCheck(r) ==
    /\ rpc[r] = "loop"
    /\ IF rI[r] < rN(r)
       THEN /\ IF timeline_stop_event
               THEN EndRun(r, "cancelled")
               ELSE /\ rpc' = [rpc EXCEPT ![r] = "extract"]
                    /\ UNCHANGED <<rItem, rDur, rI, rFrames, cancelledAt, rRequested>>
            /\ UNCHANGED timeline_cache
       ELSE IF HasFramePaths(r)
       THEN /\ timeline_cache' = [timeline_cache EXCEPT ![rItem[r]] =
                   [frames |-> rFrames[r], duration |-> rDur[r]]]
            /\ EndRun(r, "completed")
       ELSE /\ EndRun(r, "failed")
            /\ UNCHANGED timeline_cache
    /\ UNCHANGED <<FFMPEG_AVAILABLE, itemExists, timeline_stop_event,
                   timeline_generation_thread, uiVars>>
    /\ UNCHANGED <<envVars, genVars, loaderVars, genLog>>

\* What generate_single_timeline_frame can do: return the frame's path,
\* return None, or let the OSError of its mkdir (generator line 408) escape,
\* which line 558 catches and reports.
FrameOutcomes == {"ok", "None", "OSError"}

\* Lines 496-501: a generated frame is appended to frame_paths and its
\* _add_timeline_frame callback is posted to the UI thread, with index i.
\* `frames` is the sequence of indices posted so far, oldest first.
Posted_First(frames, i) == <<i>> \o frames
Posted(frames, i) == Append(frames, i)

\* generate_single_timeline_frame(video_path, i, timestamp), lines 492-505.
\* A frame that was extracted is posted to the UI at once
\* (_add_timeline_frame, line 500).
RunExtract(r) ==
    /\ rpc[r] = "extract"
    /\ \E out \in FrameOutcomes :
          CASE out = "ok" ->
                 /\ rFrames' = [rFrames EXCEPT ![r] = Posted(@, rI[r])]
                 /\ rI' = [rI EXCEPT ![r] = @ + 1]
                 /\ rpc' = [rpc EXCEPT ![r] = "loop"]
                 /\ UNCHANGED <<rItem, rDur, cancelledAt, rRequested>>
            [] out = "None" ->
                 /\ rI' = [rI EXCEPT ![r] = @ + 1]
                 /\ rpc' = [rpc EXCEPT ![r] = "loop"]
                 /\ UNCHANGED <<rItem, rDur, rFrames, cancelledAt, rRequested>>
            [] OTHER -> EndRun(r, "failed")
    /\ UNCHANGED <<FFMPEG_AVAILABLE, itemExists, timeline_cache,
                   timeline_stop_event, timeline_generation_thread, uiVars>>
    /\ UNCHANGED <<envVars, genVars, loaderVars, genLog>>

\* The fallback of lines 517-521: generate_timeline_frames(video_path,
\* num_frames=8), generator lines 424-490.  It probes the duration again:
\* TimeoutExpired escapes it and the thread; without a duration it returns
\* [] before its loop; with one it reduces the count on slow storage and
\* asks _extract_frame_with_retry for each frame, unless the mkdir of line
\* 471 raises OSError, which line 558 catches and reports.
RunFallback(r) ==
    /\ rpc[r] = "fallback"
    /\ \E probe \in TimelineProbeOutcomes :
          CASE probe = "TimeoutExpired" -> EndRun(r, "crashed")
            [] probe = "None" ->
                 /\ rpc' = [rpc EXCEPT ![r] = "post"]
                 /\ rRequested' = [rRequested EXCEPT ![r] = 0]
                 /\ UNCHANGED <<rItem, rDur, rI, rFrames, cancelledAt>>
            [] OTHER ->
                 \/ EndRun(r, "failed")
                 \/ /\ rpc' = [rpc EXCEPT ![r] = "post"]
                    /\ rRequested' = [rRequested EXCEPT ![r] =
                          ReducedFrames(SourceText(rItem[r]), FallbackFrames)]
                    /\ UNCHANGED <<rItem, rDur, rI, rFrames, cancelledAt>>
    /\ UNCHANGED <<FFMPEG_AVAILABLE, itemExists, timeline_cache,
                   timeline_stop_event, timeline_generation_thread, uiVars>>
    /\ UNCHANGED <<envVars, genVars, loaderVars, genLog>>

\* Lines 523-526: the list the fallback got is posted with
\* _update_timeline_ui and the run returns.
RunPost(r) ==
    /\ rpc[r] = "post"
    /\ EndRun(r, "updated")
    /\ UNCHANGED <<FFMPEG_AVAILABLE, itemExists, timeline_cache,
                   timeline_stop_event, timeline_generation_thread, uiVars>>
    /\ UNCHANGED <<envVars, genVars, loaderVars, genLog>>

InitTimeline ==
    /\ installed = Tools
    /\ videoExists = Paths
    /\ FFMPEG_PATH = NoPath
    /\ FFPROBE_PATH = NoPath
    /\ thumbFiles = [s \in Stems |-> 0]
    /\ frameFiles = {}
    /\ LoaderIdle
    /\ FFMPEG_AVAILABLE \in BOOLEAN
    /\ itemExists \in SUBSET Items
    /\ TimelineIdle
    /\ genLog = <<>>

NextTimeline ==
    \/ \E item \in Items : SelectBegin(item)
    \/ SelectStart
    \/ \E r \in Runs : RunStart(r)
    \/ \E r \in Runs : RunCheck(r)
    \/ \E r \in Runs : RunExtract(r)
    \/ \E r \in Runs : RunFallback(r)
    \/ \E r \in Runs : RunPost(r)

SpecTimeline == InitTimeline /\ [][NextTimeline]_vars

\* The same program under the scheduling its threads get: join(timeout=1.0)
\* returns (line 425), so the UI thread goes on to lines 433-439, and a
\* generation thread that is runnable, at its flag check or about to post
\* its update, is given the processor.  No assumption is made on how long an
\* external tool takes.
SpecTimelineLive ==
    /\ SpecTimeline
    /\ WF_vars(SelectStart)
    /\ \A r \in Runs : WF_vars(RunCheck(r)) /\ WF_vars(RunPost(r))

\* ------------------------------------- the generator called directly
\* The searches of _find_ffmpeg_executable one call of _initialize_ffmpeg_paths
\* makes for a tool whose path is `current`: one if the path is still None.
SearchesFor(current) == IF current = NoPath THEN 1 ELSE 0

\* The searches a call makes for each tool: those of its own
\* _initialize_ffmpeg_paths and, if it goes on to probe the duration, those
\* of the _initialize_ffmpeg_paths in _get_video_duration.
CallSearches(probed) ==
    [t \in Tools |->
        IF t = "ffmpeg"
        THEN SearchesFor(FFMPEG_PATH)
             + (IF probed THEN SearchesFor(Resolved(FFMPEG_PATH, t)) ELSE 0)
        ELSE SearchesFor(FFPROBE_PATH)
             + (IF probed THEN SearchesFor(Resolved(FFPROBE_PATH, t)) ELSE 0)]

\* `cached` tells whether the default destination of the source existed
\* when the call was made.
Logged(p, result, probed, invoked, searches) ==
    genLog' = Append(genLog, [source |-> p, result |-> result,
                              probed |-> probed, invoked |-> invoked,
                              searches |-> searches,
                              cached |-> IF p \in Sources
                                         THEN thumbFiles[Stem(p)] # 0
                                         ELSE FALSE])

\* generate_thumbnail(video_path) with no output path and no timestamp,
\* lines 285-363, from call to return.  `invoked` tells whether the call ran
\* the extractor (subprocess.run at line 343), `probed` whether it ran the
\* prober (_get_video_duration at line 324).
generate_thumbnail(p) ==
    /\ Len(genLog) < MaxCalls
    /\ InitializeFfmpegPaths
    /\ CASE GenPrecheck(p) = "none" ->
              /\ Logged(p, ReturnedNone, FALSE, FALSE, CallSearches(FALSE))
              /\ UNCHANGED thumbFiles
         [] GenPrecheck(p) = "hit" ->
              /\ Logged(p, Stem(p), FALSE, FALSE, CallSearches(FALSE))
              /\ UNCHANGED thumbFiles
         [] OTHER ->
              \E probe \in ProbeOutcomes, out \in ExtractOutcomes :
                 IF probe = "TimeoutExpired"
                 THEN /\ Logged(p, Raised, TRUE, FALSE, CallSearches(TRUE))
                      /\ UNCHANGED thumbFiles
                 ELSE IF out = "ok"
                 THEN /\ Logged(p, Stem(p), TRUE, TRUE, CallSearches(TRUE))
                      /\ thumbFiles' = [thumbFiles EXCEPT ![Stem(p)] = p]
                 ELSE /\ Logged(p, ReturnedNone, TRUE, TRUE, CallSearches(TRUE))
                      /\ UNCHANGED thumbFiles
    /\ UNCHANGED <<envVars, loaderVars, timelineVars, frameFiles>>

\* cleanup_cache, lines 365-374: every *.jpg of the cache directory is
\* unlinked.
cleanup_cache ==
    /\ Len(genLog) < MaxCalls
    /\ thumbFiles' = [s \in Stems |-> 0]
    /\ Logged(0, ReturnedNone, FALSE, FALSE, [t \in Tools |-> 0])
    /\ UNCHANGED <<FFMPEG_PATH, FFPROBE_PATH>>
    /\ UNCHANGED <<envVars, loaderVars, timelineVars, frameFiles>>

\* The generator before its first call, on a machine with any of the tools
\* and any of the sources.
InitGen ==
    /\ installed \in SUBSET Tools
    /\ videoExists \in SUBSET Sources
    /\ FFMPEG_PATH = NoPath
    /\ FFPROBE_PATH = NoPath
    /\ thumbFiles = [s \in Stems |-> 0]
    /\ frameFiles = {}
    /\ LoaderIdle
    /\ FFMPEG_AVAILABLE = TRUE
    /\ itemExists = Items
    /\ TimelineIdle
    /\ genLog = <<>>

NextGen ==
    \/ \E p \in Sources : generate_thumbnail(p)
    \/ cleanup_cache

SpecGen == InitGen /\ [][NextGen]_vars

\* --------------------------------------------- the duration probe alone
\* One more call in the log of direct calls.
LogCall(rec) ==
    /\ Len(genLog) < MaxCalls
    /\ genLog' = Append(genLog, rec)

\* What the prober process can do when _get_video_duration runs it (line
\* 133): print a duration and exit 0, exit with another code, exit 0 with
\* output float() cannot parse, fail to start (OSError), or still be running
\* after the 5 seconds of timeout=5.
ProberRuns == {"duration", "nonzero", "unparsable", "OSError", "timeout"}

\* How _get_video_duration ends for each of them, lines 132-143: the duration
\* is returned; a non-zero exit falls through to `return None`; ValueError
\* and OSError are caught and fall through to it; TimeoutExpired is neither,
\* so it leaves the call.
ProbeReturn(run) ==
    CASE run = "duration" -> "duration"
      [] run = "timeout" -> "TimeoutExpired"
      [] OTHER -> "None"

\* get_video_duration(video_path), lines 107-143, from call to return.
\* `probes` counts the prober processes the call started.
get_video_duration(p) ==
    /\ InitializeFfmpegPaths
    /\ IF Resolved(FFPROBE_PATH, "ffprobe") = NoPath
       THEN LogCall([source |-> p, run |-> "not run", result |-> "None",
                     probes |-> 0])
       ELSE \E run \in ProberRuns :
               LogCall([source |-> p, run |-> run,
                        result |-> ProbeReturn(run), probes |-> 1])
    /\ UNCHANGED thumbFiles
    /\ UNCHANGED <<envVars, loaderVars, timelineVars, frameFiles>>

NextProbe == \E p \in Sources : get_video_duration(p)

SpecProbe == InitGen /\ [][NextProbe]_vars

\* ------------------------------------------ frame extraction with retries
max_retries == 2     \* _extract_frame_with_retry, line 218
backoff_base == 1    \* seconds, line 219

FrameIndexes == 0..MaxIndex
Stamps == 0..MaxStamp

\* A frame file without a timestamp in its name.
NoStamp == -1

\* f"frame_{frame_index:02d}.jpg", the name generate_single_timeline_frame
\* looks for (line 410).
CheckedName(i) == [index |-> i, stamp |-> NoStamp, ext |-> "jpg"]

\* f"frame_{frame_index}_{int(timestamp)}.png", the name
\* _extract_frame_with_retry has the extractor write (line 227).
WrittenName(i, ts) == [index |-> i, stamp |-> ts, ext |-> "png"]

\* output_dir as both callers pass it: <cache_dir>/<stem>_timeline.
FrameFile(p, name) == [dir |-> Stem(p), name |-> name]

\* What one extractor process can do: write the frame and exit 0, fail
\* (non-zero exit, or exit 0 with no output file), run into the timeout, or
\* not start at all (OSError).
AttemptOutcomes == {"ok", "fail", "timeout", "OSError"}

\* What the extractor would do each time it is started by one call.
Scripts == [1..(max_retries + 1) -> AttemptOutcomes]

\* wait_time = backoff_base * (2 ** attempt), line 263.
WaitTime_Constant(attempt) == backoff_base

WaitTime(attempt) == backoff_base * (2 ^ attempt)

\* A loop body that starts the extractor again after a failure, as it does
\* after a timeout.
AfterAttempt_RetryOnFailure(out, attempt) ==
    CASE out = "ok" -> "path"
      [] out \in {"fail", "timeout"} ->
            IF attempt < max_retries THEN "retry" ELSE "None"
      [] OTHER -> "None"

\* One pass of the for loop (lines 221-279) for 0-based `attempt`: return
\* the frame's path, return None, or sleep and go round again.
AfterAttempt(out, attempt) ==
    CASE out = "ok" -> "path"
      [] out = "fail" -> "None"
      [] out = "timeout" -> IF attempt < max_retries THEN "retry" ELSE "None"
      [] OTHER -> "None"

\* for attempt in range(max_retries + 1), lines 221-281: the result, the
\* extractor processes started and the sleeps made, in order.
RECURSIVE RetryLoop(_, _, _)
RetryLoop(script, attempt, waits) ==
    IF attempt > max_retries
    THEN [result |-> "None", attempts |-> attempt, waits |-> waits]
    ELSE IF AfterAttempt(script[attempt + 1], attempt) = "retry"
    THEN RetryLoop(script, attempt + 1, Append(waits, WaitTime(attempt)))
    ELSE [result |-> AfterAttempt(script[attempt + 1], attempt),
          attempts |-> attempt + 1, waits |-> waits]

ExtractFrameWithRetry(script) == RetryLoop(script, 0, <<>>)

\* _extract_frame_with_retry(video_path, timestamp, frame_index, output_dir),
\* lines 200-282, from call to return.
extract_frame_with_retry(p, i, ts) ==
    /\ genLog = <<>>
    /\ \E script \in Scripts :
          /\ genLog' = <<[source |-> p, index |-> i, script |-> script,
                          result |-> ExtractFrameWithRetry(script).result,
                          attempts |-> ExtractFrameWithRetry(script).attempts,
                          waits |-> ExtractFrameWithRetry(script).waits]>>
          /\ frameFiles' =
                IF ExtractFrameWithRetry(script).result = "path"
                THEN frameFiles \cup {FrameFile(p, WrittenName(i, ts))}
                ELSE frameFiles
    /\ UNCHANGED <<FFMPEG_PATH, FFPROBE_PATH, thumbFiles>>
    /\ UNCHANGED <<envVars, loaderVars, timelineVars>>

\* Both callers have resolved the tool paths and found the extractor before
\* they call _extract_frame_with_retry.
InitRetry ==
    /\ installed \in {S \in SUBSET Tools : "ffmpeg" \in S}
    /\ videoExists \in SUBSET Sources
    /\ FFMPEG_PATH = FindExecutable("ffmpeg")
    /\ FFPROBE_PATH = FindExecutable("ffprobe")
    /\ thumbFiles = [s \in Stems |-> 0]
    /\ frameFiles = {}
    /\ LoaderIdle
    /\ FFMPEG_AVAILABLE = TRUE
    /\ itemExists = Items
    /\ TimelineIdle
    /\ genLog = <<>>

NextRetry ==
    \E p \in Sources, i \in FrameIndexes, ts \in Stamps :
        extract_frame_with_retry(p, i, ts)

SpecRetry == InitRetry /\ [][NextRetry]_vars

\* ------------------------------- the frame plan of a run: count and times
\* The durations a plan is made for: every whole second up to the bound and
\* the half hour, the hour and ten hours.
PlanDurations == (1..MaxSeconds) \cup {1800, 3600, 36000}

\* A progress of 0 + i/(n-1), with no margin at either end.
ProgressNum_NoMargin(i, n) == IF n > 1 THEN 20 * i ELSE 10

\* prog = 0.05 + (i / (num_frames - 1)) * 0.9 if num_frames > 1 else 0.5
\* (ui_preview.py line 487), as the exact fraction
\* ProgressNum(i, n) / ProgressDen(n), in twentieths: 0.05 = 1/20 and
\* 0.9 = 18/20.
ProgressNum(i, n) == IF n > 1 THEN (n - 1) + 18 * i ELSE 10

ProgressDen(n) == IF n > 1 THEN 20 * (n - 1) ELSE 20

\* timestamp = duration * prog (line 488): the numerator over ProgressDen(n).
TimestampNum(duration, i, n) == duration * ProgressNum(i, n)

\* The part of _load_timeline that plans a run for a probed duration > 0,
\* lines 473-488: the frame count and the timestamp of every frame.
plan_timeline(d) ==
    /\ genLog = <<>>
    /\ genLog' = <<[duration |-> d,
                    frames |-> NumFrames(d),
                    den |-> ProgressDen(NumFrames(d)),
                    stamps |-> [i \in 0..(NumFrames(d) - 1) |->
                                   TimestampNum(d, i, NumFrames(d))]]>>
    /\ UNCHANGED <<envVars, genVars, loaderVars, timelineVars>>

NextPlan == \E d \in PlanDurations : plan_timeline(d)

SpecPlan == Init /\ [][NextPlan]_vars

\* ------------------------------------------------ slow-storage requests
\* What a run of _load_timeline with a probed duration asks of the
\* generator for a source: NumFrames(d) frames (lines 477-479), each with
\* the per-attempt timeout of _get_frame_timeout.  `plain` is the count the
\* same request makes for a path with no indicator in it.
request_frames(text, d) ==
    /\ genLog = <<>>
    /\ genLog' = <<[path |-> text, timeout |-> GetFrameTimeout(text),
                    plain |-> NumFrames(d), requested |-> NumFrames(d)]>>
    /\ UNCHANGED <<envVars, genVars, loaderVars, timelineVars>>

\* What the fallback asks for: generate_timeline_frames(video_path,
\* num_frames=8), which reduces the count on slow storage before its loop.
request_fallback_frames(text) ==
    /\ genLog = <<>>
    /\ genLog' = <<[path |-> text, timeout |-> GetFrameTimeout(text),
                    plain |-> FallbackFrames,
                    requested |-> ReducedFrames(text, FallbackFrames)]>>
    /\ UNCHANGED <<envVars, genVars, loaderVars, timelineVars>>

NextSlow ==
    \/ \E text \in PathTexts, d \in ProbedDurations : request_frames(text, d)
    \/ \E text \in PathTexts : request_fallback_frames(text)

SpecSlow == Init /\ [][NextSlow]_vars

\* ------------------------------------------- one timeline frame, directly
\* generate_single_timeline_frame(video_path, frame_index, timestamp) with no
\* output directory, lines 376-422, from call to return.  `attempts` counts
\* the extractor processes the call started.
generate_single_timeline_frame(p, i, ts) ==
    /\ InitializeFfmpegPaths
    /\ IF Unresolved(Resolved(FFMPEG_PATH, "ffmpeg")) \/ p \notin videoExists
       THEN /\ LogCall([source |-> p, index |-> i, result |-> "None",
                        attempts |-> 0])
            /\ UNCHANGED frameFiles
       ELSE IF FrameFile(p, CheckedName(i)) \in frameFiles
       THEN /\ LogCall([source |-> p, index |-> i, result |-> "path",
                        attempts |-> 0])
            /\ UNCHANGED frameFiles
       ELSE \/ /\ LogCall([source |-> p, index |-> i, result |-> "OSError",
                           attempts |-> 0])
               /\ UNCHANGED frameFiles
            \/ \E script \in Scripts :
                  /\ LogCall([source |-> p, index |-> i,
                              result |-> ExtractFrameWithRetry(script).result,
                              attempts |-> ExtractFrameWithRetry(script).attempts])
                  /\ frameFiles' =
                        IF ExtractFrameWithRetry(script).result = "path"
                        THEN frameFiles \cup {FrameFile(p, WrittenName(i, ts))}
                        ELSE frameFiles
    /\ UNCHANGED thumbFiles
    /\ UNCHANGED <<envVars, loaderVars, timelineVars>>

NextFrame ==
    \E p \in Sources, i \in FrameIndexes, ts \in Stamps :
        generate_single_timeline_frame(p, i, ts)

SpecFrame == InitGen /\ [][NextFrame]_vars

\* ------------------------------------ the cache directory and its clearing
\* Thumbnails and timeline frames are generated and the cache is cleared,
\* in any order.
NextClean ==
    \/ \E p \in Sources : generate_thumbnail(p)
    \/ \E p \in Sources, i \in FrameIndexes, ts \in Stamps :
          generate_single_timeline_frame(p, i, ts)
    \/ cleanup_cache

SpecClean == InitGen /\ [][NextClean]_vars

\* ------------------------------ one generator call on a disk with history
\* The num_frames values generate_timeline_frames is called with.
AskedCounts == {1, 2, FallbackFrames}

RECURSIVE Ascending(_)
Ascending(S) ==
    IF S = {} THEN <<>>
    ELSE LET m == CHOOSE x \in S : \A y \in S : x <= y
         IN <<m>> \o Ascending(S \ {m})

\* int(timestamp) of frame i of n, for the file name of line 227.
FrameStamp(duration, i, n) == TimestampNum(duration, i, n) \div ProgressDen(n)

\* generate_timeline_frames(video_path, num_frames) with no output
\* directory, lines 424-490, from call to return.  `requested` is the number
\* of frames the loop of line 476 asks _extract_frame_with_retry for,
\* `frames` the indexes it got a path for, `probes` the prober processes and
\* `extractions` the frames an extractor process was started for.
generate_timeline_frames(p, num_frames) ==
    /\ InitializeFfmpegPaths
    /\ IF \/ Unresolved(Resolved(FFMPEG_PATH, "ffmpeg"))
          \/ Unresolved(Resolved(FFPROBE_PATH, "ffprobe"))
          \/ p \notin videoExists
       THEN /\ LogCall([source |-> p, asked |-> num_frames,
                        result |-> "list", requested |-> 0, frames |-> <<>>,
                        probes |-> 0, extractions |-> 0])
            /\ UNCHANGED frameFiles
       ELSE \E probe \in ProbeOutcomes :
          CASE probe = "TimeoutExpired" ->
                 /\ LogCall([source |-> p, asked |-> num_frames,
                             result |-> "TimeoutExpired", requested |-> 0,
                             frames |-> <<>>, probes |-> 1,
                             extractions |-> 0])
                 /\ UNCHANGED frameFiles
            [] probe = "None" ->
                 /\ LogCall([source |-> p, asked |-> num_frames,
                             result |-> "list", requested |-> 0,
                             frames |-> <<>>, probes |-> 1,
                             extractions |-> 0])
                 /\ UNCHANGED frameFiles
            [] OTHER ->
                 LET n == ReducedFrames(SourceText(p), num_frames) IN
                 \/ \* the mkdir of line 471 fails
                    /\ LogCall([source |-> p, asked |-> num_frames,
                                result |-> "OSError", requested |-> 0,
                                frames |-> <<>>, probes |-> 1,
                                extractions |-> 0])
                    /\ UNCHANGED frameFiles
                 \/ \E d \in ProbedDurations, got \in SUBSET (0..(n - 1)) :
                       /\ LogCall([source |-> p, asked |-> num_frames,
                                   result |-> "list", requested |-> n,
                                   frames |-> Ascending(got), probes |-> 1,
                                   extractions |-> n])
                       /\ frameFiles' = frameFiles \cup
                             {FrameFile(p, WrittenName(i, FrameStamp(d, i, n)))
                                 : i \in got}
    /\ UNCHANGED thumbFiles
    /\ UNCHANGED <<envVars, loaderVars, timelineVars>>

\* The generator before the first call of a process, on a machine with any
\* of the tools and any of the sources, whose cache directory holds the
\* thumbnails earlier processes left there.
InitDisk ==
    /\ installed \in SUBSET Tools
    /\ videoExists \in SUBSET Sources
    /\ FFMPEG_PATH = NoPath
    /\ FFPROBE_PATH = NoPath
    /\ thumbFiles \in {f \in [Stems -> {0} \cup Sources] :
                          \A st \in Stems : f[st] # 0 => Stem(f[st]) = st}
    /\ frameFiles = {}
    /\ LoaderIdle
    /\ FFMPEG_AVAILABLE = TRUE
    /\ itemExists = Items
    /\ TimelineIdle
    /\ genLog = <<>>

\* One call of one of the three generating functions.
NextDisk ==
    \/ \E p \in Sources : genLog = <<>> /\ generate_thumbnail(p)
    \/ \E p \in Sources, i \in FrameIndexes, ts \in Stamps :
          genLog = <<>> /\ generate_single_timeline_frame(p, i, ts)
    \/ \E p \in Sources, num_frames \in AskedCounts :
          genLog = <<>> /\ generate_timeline_frames(p, num_frames)

SpecDisk == InitDisk /\ [][NextDisk]_vars

\* ------------------------------------------------------------------ claims

\* A duplicate: the request the worker holds was found in loading_set.
Duplicate(w) == exc[w] \in {"continue", "duplicate"}

\* The worker has passed the loading_set check for its request and is adding
\* the path, extracting or decoding.
Servicing(w) == pc[w] \in {"add", "extracting", "decode"}

\* No request is queued and no worker holds one.
Drained ==
    /\ \A i \in 1..Len(request_queue) : request_queue[i] = 0
    /\ \A w \in Workers : req[w] = 0

\* C1: once the pool has drained the queue, a path that was requested only
\* while it was not cached (every call for it was queued) has had its
\* callbacks invoked exactly once in total.
C1_OneCallbackPerPath ==
    Drained =>
        \A p \in Paths :
            (pushed[p] >= 1 /\ pushed[p] = calls[p]) => cbWorker[p] = 1

\* C5: when shutdown() has returned every worker thread has terminated, and
\* no worker invokes a callback from then on.
C5_ShutdownStopsWorkers ==
    /\ [](sdpc = "done" => \A w \in Workers : Terminated(w))
    /\ [][sdpc = "done" => cbWorker' = cbWorker]_vars

\* C6: no worker thread ever ends on an exception.
C6_NoWorkerDies == \A w \in Workers : pc[w] # "dead"

\* C8: at most one worker at a time is servicing a given path.
C8_OneServicingPerPath ==
    \A p \in Paths : Cardinality({w \in Workers : Servicing(w) /\ req[w] = p}) <= 1

\* C9: a request that a worker lets go of was either dropped as a duplicate,
\* with no callback, or serviced, with exactly one callback.
C9_DeliveredOrDropped ==
    [][\A w \in Workers :
          (req[w] # 0 /\ req'[w] = 0) =>
              IF Duplicate(w)
              THEN cbWorker' = cbWorker
              ELSE cbWorker' = [cbWorker EXCEPT ![req[w]] = @ + 1]]_vars

\* The step posts a frame of run r to the timeline UI (_add_timeline_frame).
PostsFrame(r) == Len(rFrames'[r]) = Len(rFrames[r]) + 1

\* The step ends run r with its last message to the timeline UI: the
\* completion or failure message of lines 538-563 or the
\* _update_timeline_ui of the fallback and of the early returns.
PostsTerminal(r) ==
    /\ Alive(r)
    /\ rpc'[r] \in {"completed", "failed", "updated"}

\* C2: at most one timeline generation thread is executing at any moment.
C2_OneGenerationThread == Cardinality({r \in Runs : Alive(r)}) <= 1

\* C3: a run whose cancellation flag was set before it reached the flag
\* check for frame index k posts no frame of index k or more and writes no
\* timeline_cache entry.
C3_CancelledRunStops ==
    [][\A r \in Runs :
          cancelledAt[r] # -1 =>
              /\ PostsFrame(r) => rI[r] < cancelledAt[r]
              /\ rpc'[r] # "completed"]_vars

\* C4: once the selection of an item has been handled, every frame,
\* completion or failure posted to the timeline UI belongs to that item.
C4_LatestSelectionOnly ==
    [][\A r \in Runs :
          (uipc = "idle" /\ selected # 0 /\ (PostsFrame(r) \/ PostsTerminal(r)))
              => rItem[r] = selected]_vars

\* C10: a run that was never cancelled does not end on an uncaught
\* exception: it ends with its completion or failure message.
C10_RunEndsWithNotification ==
    [][\A r \in Runs :
          (Alive(r) /\ cancelledAt[r] = -1 /\ Ended(r)') => PostsTerminal(r)]_vars

\* Entries i and i+1 of the log are two calls of generate_thumbnail for the
\* same source, one directly after the other.
CalledTwice(i) ==
    /\ i + 1 <= Len(genLog)
    /\ genLog[i].source # 0
    /\ genLog[i + 1].source = genLog[i].source

\* C7 as claimed: two calls in a row for one source return the same path,
\* the second makes no extractor invocation and the extractor runs at most
\* once over the two.
C7_Idempotent ==
    \A i \in 1..Len(genLog) :
        CalledTwice(i) =>
            /\ genLog[i + 1].result = genLog[i].result
            /\ ~genLog[i + 1].invoked

\* C7, amended: when a call returned a path, the next call for the same
\* source returns the same path without an extractor invocation.
C7_IdempotentOnceGenerated ==
    \A i \in 1..Len(genLog) :
        (CalledTwice(i) /\ genLog[i].result >= 1) =>
            /\ genLog[i + 1].result = genLog[i].result
            /\ ~genLog[i + 1].invoked

\* The first call ran the extractor and returned a path, and a second call
\* for the same source followed.
C7_Witness ==
    \E i \in 1..Len(genLog) :
        CalledTwice(i) /\ genLog[i].result >= 1 /\ genLog[i].invoked

\* C11: a call of get_video_duration whose prober exited with a non-zero
\* code, printed something that is no number, or ran into the timeout
\* returned None (no exception left the call) and started one prober at most.
C11_ProbeNeverRaises ==
    \A i \in 1..Len(genLog) :
        genLog[i].run \in {"nonzero", "unparsable", "timeout"} =>
            /\ genLog[i].result = "None"
            /\ genLog[i].probes <= 1

\* C12: one call starts the extractor at most 3 times; start n+1 follows a
\* timeout of start n and a wait of 2^(n-1) seconds; a call whose third start
\* timed out returned None having waited twice.
C12_RetryWithBackoff ==
    \A k \in 1..Len(genLog) :
        /\ genLog[k].attempts <= 3
        /\ \A n \in 1..(genLog[k].attempts - 1) :
              genLog[k].script[n] = "timeout"
        /\ Len(genLog[k].waits) = genLog[k].attempts - 1
        /\ \A n \in 1..Len(genLog[k].waits) :
              genLog[k].waits[n] = 2 ^ (n - 1)
        /\ (genLog[k].attempts = 3 /\ genLog[k].script[3] = "timeout") =>
              genLog[k].result = "None"

\* A call whose three extractor starts all timed out.
C12_Witness ==
    \E k \in 1..Len(genLog) :
        /\ genLog[k].attempts = 3
        /\ genLog[k].script[3] = "timeout"
        /\ genLog[k].waits = <<1, 2>>

C14_FrameCount ==
    \A k \in 1..Len(genLog) :
        LET d == genLog[k].duration
            n == genLog[k].frames
        IN  /\ \E r \in 0..(d \div 60 + 1) :
                  /\ 60 * r - d <= 30
                  /\ d - 60 * r <= 30
                  /\ (60 * r - d = 30 \/ d - 60 * r = 30) => r % 2 = 0
                  /\ n = (IF r < 1 THEN 1 ELSE IF r > 120 THEN 120 ELSE r)
            /\ d = 60 => n = 1
            /\ d = 1800 => n = 30
            /\ d = 36000 => n = 120

\* A plan for a duration of two and a half minutes, a tie between 2 and 3.
C14_Witness ==
    \E k \in 1..Len(genLog) : genLog[k].duration = 150 /\ genLog[k].frames = 2

\* C15 as claimed: with more than one frame the timestamps increase
\* strictly and every one lies strictly between 0.05 and 0.95 of the
\* duration; a single frame is at half the duration.
C15_TimestampsInsideOpen ==
    \A k \in 1..Len(genLog) :
        LET d == genLog[k].duration
            n == genLog[k].frames
            den == genLog[k].den
            t == genLog[k].stamps
        IN  IF n = 1 THEN 2 * t[0] = d * den
            ELSE /\ \A i \in 0..(n - 2) : t[i] < t[i + 1]
                 /\ \A i \in 0..(n - 1) :
                       d * den < 20 * t[i] /\ 20 * t[i] < 19 * d * den

\* C15, amended: with more than one frame the timestamps increase strictly
\* from exactly 0.05 of the duration to exactly 0.95 of it, so that every one
\* lies in the closed interval; a single frame is at half the duration.
C15_TimestampsInsideClosed ==
    \A k \in 1..Len(genLog) :
        LET d == genLog[k].duration
            n == genLog[k].frames
            den == genLog[k].den
            t == genLog[k].stamps
        IN  IF n = 1 THEN 2 * t[0] = d * den
            ELSE /\ \A i \in 0..(n - 2) : t[i] < t[i + 1]
                 /\ 20 * t[0] = d * den
                 /\ 20 * t[n - 1] = 19 * d * den
                 /\ \A i \in 0..(n - 1) :
                       d * den <= 20 * t[i] /\ 20 * t[i] <= 19 * d * den

\* A plan of three frames or more.
C15_Witness ==
    \E k \in 1..Len(genLog) :
        genLog[k].frames >= 3 /\ DOMAIN genLog[k].stamps = 0..(genLog[k].frames - 1)

\* C16: a path with a slow-storage indicator in it, in any letter case, gets
\* a 60-second timeout and max(3, n div 2) requested frames, n being the
\* count requested without the indicator; any other path gets 30 seconds
\* and n frames.
C16_SlowStorageHalvesFrames ==
    \A k \in 1..Len(genLog) :
        IF \E j \in 0..(Len(genLog[k].path) - 3) :
              /\ genLog[k].path[j + 1] \in {"u", "U"}
              /\ genLog[k].path[j + 2] = "s"
              /\ genLog[k].path[j + 3] \in {"b", "B"}
        THEN /\ genLog[k].timeout = 60
             /\ genLog[k].requested = Max(3, genLog[k].plain \div 2)
        ELSE /\ genLog[k].timeout = 30
             /\ genLog[k].requested = genLog[k].plain

\* C17: a selection of an item that has a timeline_cache entry is handled in
\* one go on the UI thread: the item is shown, no generation thread is
\* started or signalled, no tool is run and timeline_cache stays as it is.
C17_CachedSelectStartsNothing ==
    [][\A item \in Items :
          (/\ uipc = "idle"
           /\ timeline_cache[item] # NoEntry
           /\ \/ selItem' = item
              \/ selected' = item /\ selected # item)
          => /\ uipc' = "idle"
             /\ selected' = item
             /\ UNCHANGED <<timeline_cache, timeline_generation_thread,
                            timeline_stop_event, runVars, cancelledAt,
                            genVars>>]_vars

\* A cached item was selected while the thread started last, for another
\* item, is still generating.
C17_Witness ==
    /\ selected # 0
    /\ timeline_cache[selected] # NoEntry
    /\ timeline_generation_thread # 0
    /\ Alive(timeline_generation_thread)
    /\ rItem[timeline_generation_thread] # selected

\* C18: an entry of timeline_cache, once there, is never replaced or changed.
C18_CacheEntryNeverChanges ==
    [][\A item \in Items :
          timeline_cache[item] # NoEntry =>
              timeline_cache'[item] = timeline_cache[item]]_vars

\* C19: once generate_single_timeline_frame has returned a path for a source
\* and a frame index, every later call for the same source and index returns
\* a path without starting the extractor.
C19_FrameCachedOnDisk ==
    \A j \in 1..Len(genLog) : \A k \in (j + 1)..Len(genLog) :
        (/\ genLog[j].result = "path"
         /\ genLog[k].source = genLog[j].source
         /\ genLog[k].index = genLog[j].index)
        => genLog[k].result = "path" /\ genLog[k].attempts = 0

RECURSIVE SearchesUpTo(_, _)
\* The searches for `tool` made by the first k calls of the log.
SearchesUpTo(tool, k) ==
    IF k = 0 THEN 0 ELSE genLog[k].searches[tool] + SearchesUpTo(tool, k - 1)

\* C20: over the life of the process each tool is searched for at most once,
\* whatever the search came back with.
C20_ToolSearchedOnce ==
    \A tool \in Tools : SearchesUpTo(tool, Len(genLog)) <= 1

\* C21: a queue_thumbnail call made while the handle cache holds a handle for
\* the path invokes the callback once, within the call, with that handle;
\* it puts nothing on the request queue and leaves loading_set and the
\* handle cache as they were.
C21_CacheHitCallsBackAtOnce ==
    [][\A p \in Paths :
          (calls'[p] = calls[p] + 1 /\ thumbnail_cache[p] # 0) =>
             /\ cbSync'[p] = cbSync[p] + 1
             /\ syncArg'[p] = thumbnail_cache[p]
             /\ \A q \in Paths \ {p} : cbSync'[q] = cbSync[q]
             /\ cbWorker' = cbWorker
             /\ request_queue' = request_queue
             /\ pushed' = pushed
             /\ loading_set' = loading_set
             /\ thumbnail_cache' = thumbnail_cache]_vars

\* A callback was made from inside queue_thumbnail, with a cached handle.
C21_Witness ==
    \E p \in Paths : cbSync[p] >= 1 /\ syncArg[p] # 0 /\ pushed[p] < calls[p]

\* C22: shutdown() is idempotent.  Once a first call has returned and every
\* worker has ended, nothing but shutdown() itself touches the loader, so a
\* second call leaves the running flag, the workers, the contents of the
\* request queue and the handle cache as they were and invokes no callback.
C22_ShutdownIdempotent ==
    [][(sdpc = "done" /\ sdpc' = "joining"
            /\ \A w \in Workers : Terminated(w)) =>
          /\ is_running' = is_running
          /\ pc' = pc
          /\ request_queue' = request_queue
          /\ thumbnail_cache' = thumbnail_cache
          /\ cbWorker' = cbWorker
          /\ cbSync' = cbSync]_vars

\* C23: with the extractor path unresolved, generate_thumbnail,
\* generate_single_timeline_frame and generate_timeline_frames each return
\* None or an empty list, start no external process and raise nothing.
C23_NoToolNoProcess ==
    (genLog # <<>> /\ FFMPEG_PATH = NoPath) =>
        LET rec == genLog[1] IN
        CASE "invoked" \in DOMAIN rec ->
                 rec.result = ReturnedNone /\ ~rec.probed /\ ~rec.invoked
          [] "index" \in DOMAIN rec ->
                 rec.result = "None" /\ rec.attempts = 0
          [] OTHER ->
                 /\ rec.result = "list"
                 /\ rec.frames = <<>>
                 /\ rec.probes = 0
                 /\ rec.extractions = 0

\* generate_timeline_frames was called for a source that exists, with the
\* prober present and the extractor not found.
C23_Witness ==
    /\ genLog # <<>>
    /\ FFMPEG_PATH = NoPath
    /\ FFPROBE_PATH # NoPath
    /\ "asked" \in DOMAIN genLog[1]
    /\ genLog[1].source \in videoExists

\* C24: a run with a probed duration that gets through its frame loop with
\* no cancellation seen stores, if it extracted a frame, an entry under its
\* item with the extracted frames in increasing index order and the probed
\* duration, and posts the completion message; if it extracted none, it
\* posts the failure message and writes no entry.
C24_CacheWrittenAfterLoop ==
    [][\A r \in Runs :
          (rpc[r] = "loop" /\ rI[r] = rN(r) /\ rpc'[r] # "loop") =>
             IF rFrames[r] # <<>>
             THEN /\ rpc'[r] = "completed"
                  /\ timeline_cache'[rItem[r]] =
                         [frames |-> rFrames[r], duration |-> rDur[r]]
                  /\ rDur[r] = ItemDuration(rItem[r])
                  /\ \A j, k \in 1..Len(rFrames[r]) :
                        j < k => rFrames[r][j] < rFrames[r][k]
                  /\ \A j \in 1..Len(rFrames[r]) :
                        rFrames[r][j] \in 0..(rN(r) - 1)
                  /\ \A i \in Items \ {rItem[r]} :
                        timeline_cache'[i] = timeline_cache[i]
             ELSE /\ rpc'[r] = "failed"
                  /\ timeline_cache' = timeline_cache]_vars

\* A run has completed and left an entry with fewer frames than it asked
\* for: some frame failed and the others were stored.
C24_Witness ==
    \E r \in Runs, i \in Items :
       /\ rpc[r] = "completed"
       /\ timeline_cache[i] # NoEntry
       /\ Len(timeline_cache[i].frames) < NumFrames(timeline_cache[i].duration)

\* The worker has added its request's path to loading_set (line 74) and has
\* not yet reached the discard of its finally block (line 99).
InAttempt(w) ==
    \/ pc[w] \in {"extracting", "decode"}
    \/ pc[w] = "finally" /\ exc[w] = "TimeoutExpired"

\* C25: loading_set is exactly the set of paths some worker is servicing: a
\* path is in it from the moment a worker starts on it until that worker's
\* attempt ends, and the handling of another request never removes it.
C25_LoadingSetIsServicedPaths ==
    loading_set = {req[w] : w \in {v \in Workers : InAttempt(v)}}

\* C26: a request taken from the queue while its path is in loading_set is
\* dropped with no other effect: from the check that finds the path there
\* until the worker lets the request go, the worker invokes no callback and
\* leaves loading_set and the handle cache as they are.
C26_DuplicateDroppedSilently ==
    [][\A w \in Workers :
          (Duplicate(w) /\ pc[w] \in {"finally", "callback"}
                /\ pc'[w] # pc[w]) =>
             /\ loading_set' = loading_set
             /\ thumbnail_cache' = thumbnail_cache
             /\ cbWorker' = cbWorker]_vars

\* The worker is at the callback of a request it serviced and the servicing
\* failed: generate_thumbnail returned None or raised, or the decode raised
\* (a decode error caught at line 94 has set photo to None).
ServicingFailed(w) ==
    /\ pc[w] = "callback"
    /\ ~Duplicate(w)
    /\ thumb_path[w] = 0 \/ exc[w] # "none" \/ photo[w] = NoPhoto

\* C27: when the servicing of a request fails, the worker invokes that
\* request's callback exactly once, with (source_path, None).
C27_FailureCallsBackWithNone ==
    [][\A w \in Workers :
          (ServicingFailed(w) /\ req'[w] = 0) =>
             /\ photo[w] = NoPhoto
             /\ cbWorker' = [cbWorker EXCEPT ![req[w]] = @ + 1]]_vars

\* C28: a handle a worker passes to a callback was decoded while servicing
\* that same request, from the artifact generated for its path; a handle
\* left over from an earlier request is never passed on.
C28_NoStaleHandle ==
    \A w \in Workers :
       (pc[w] = "callback" /\ photo[w] # Unbound /\ photo[w] # NoPhoto) =>
          /\ ~Duplicate(w)
          /\ exc[w] = "none"
          /\ thumb_path[w] = Stem(req[w])

\* C29 as stated: whenever the default destination of the source exists on
\* disk, generate_thumbnail returns that path and runs neither the prober
\* nor the extractor, whatever tools are installed and whether or not the
\* source file exists.
C29_CacheHitAlways ==
    (genLog # <<>> /\ "cached" \in DOMAIN genLog[1] /\ genLog[1].cached) =>
        /\ genLog[1].result = Stem(genLog[1].source)
        /\ ~genLog[1].probed
        /\ ~genLog[1].invoked

\* C29: if the extractor is found and the source file exists, a call made
\* while the default destination of the source exists on disk returns that
\* path and runs neither the prober nor the extractor.
C29_CacheHitWhenCallable ==
    (genLog # <<>> /\ "cached" \in DOMAIN genLog[1] /\ genLog[1].cached
        /\ "ffmpeg" \in installed /\ genLog[1].source \in videoExists) =>
        /\ genLog[1].result = Stem(genLog[1].source)
        /\ ~genLog[1].probed
        /\ ~genLog[1].invoked
        /\ thumbFiles[Stem(genLog[1].source)] # 0

\* generate_thumbnail was called for an existing source whose thumbnail was
\* on disk, with the extractor installed and the prober not.
C29_Witness ==
    /\ genLog # <<>>
    /\ "cached" \in DOMAIN genLog[1]
    /\ genLog[1].cached
    /\ installed = {"ffmpeg"}
    /\ genLog[1].source \in videoExists
    /\ genLog[1].result = Stem(genLog[1].source)

\* C30: a run whose duration probe gave no positive duration has asked for
\* the extraction of 8 frames by the time it posts its one update to the
\* timeline UI; it has posted no frame of its own before and it writes no
\* timeline_cache entry.
C30_FallbackRequestsEightFrames ==
    [][\A r \in Runs :
          (rpc[r] = "post" /\ rpc'[r] # "post") =>
             /\ rRequested[r] = FallbackFrames
             /\ rpc'[r] = "updated"
             /\ rFrames[r] = <<>>
             /\ timeline_cache' = timeline_cache]_vars

\* C31: a frame that could not be generated does not end the run.  After the
\* attempt for frame i the run goes back to the head of its loop with index
\* i + 1, and from the head of the loop it attempts the frame of its index
\* unless it sees the cancellation flag or has attempted all of them: an
\* uncancelled run attempts every index once, in increasing order.
C31_FailedFrameDoesNotEndRun ==
    [][\A r \in Runs :
          /\ (rpc[r] = "extract" /\ rpc'[r] # "extract") =>
                (rpc'[r] = "loop" /\ rI'[r] = rI[r] + 1)
          /\ (rpc[r] = "loop" /\ rpc'[r] # "loop" /\ ~timeline_stop_event) =>
                IF rI[r] < rN(r)
                THEN rpc'[r] = "extract" /\ rI'[r] = rI[r]
                ELSE rpc'[r] \in {"completed", "failed"}]_vars

\* C32: within one run the frame-ready callbacks are posted in strictly
\* increasing index order, each index at most once, and the callback of
\* index i is posted by the step that extracts frame i, before the
\* extraction of frame i + 1 starts.
C32_FramesPostedInOrder ==
    [][\A r \in Runs :
          /\ \A j, k \in 1..Len(rFrames'[r]) :
                j < k => rFrames'[r][j] < rFrames'[r][k]
          /\ \A j \in 1..Len(rFrames'[r]) : rFrames'[r][j] < rI'[r]
          /\ PostsFrame(r) =>
                /\ rpc[r] = "extract"
                /\ rFrames'[r][Len(rFrames'[r])] = rI[r]
                /\ rI'[r] = rI[r] + 1]_vars

\* A run has posted the callbacks of frames 0 and 1 and is back at the head
\* of its loop.
C32_Witness ==
    \E r \in Runs : rpc[r] = "loop" /\ rFrames[r] = <<0, 1>>

\* C33: selecting an uncached item does not block the caller for ever.  Once
\* _generate_timeline_threaded has set the flag and is joining the previous
\* thread, it goes on to start a thread for the newly selected item, with
\* the flag cleared, also while the previous run is inside an extraction.
C33_SelectAlwaysStarts ==
    /\ [][(uipc = "join" /\ uipc' # "join") =>
            /\ uipc' = "idle"
            /\ timeline_generation_thread' # timeline_generation_thread
            /\ rpc[timeline_generation_thread'] = "unstarted"
            /\ rpc'[timeline_generation_thread'] = "start"
            /\ rItem'[timeline_generation_thread'] = selItem
            /\ ~timeline_stop_event']_vars
    /\ (uipc = "join") ~> (uipc = "idle")

\* The thread of the newly selected item has been started while the previous
\* run is still inside the extraction of a frame.
C33_Witness ==
    /\ uipc = "idle"
    /\ timeline_generation_thread # 0
    /\ rpc[timeline_generation_thread] = "start"
    /\ rItem[timeline_generation_thread] = selected
    /\ \E q \in Runs : q # timeline_generation_thread /\ rpc[q] = "extract"

\* C34: a call of generate_thumbnail that finds no cached thumbnail, with the
\* extractor resolved and the source present, runs the extractor (once: one
\* subprocess.run, no retry).
C34_MissInvokesExtractorOnce ==
    \A k \in 1..Len(genLog) :
        LET rec == genLog[k]
        IN (/\ rec.source \in Sources
            /\ ~rec.cached
            /\ "ffmpeg" \in installed
            /\ rec.source \in videoExists) => rec.invoked

\* C35: when cleanup_cache has returned, no generated file is left in the
\* cache directory, neither a thumbnail nor a timeline frame.
C35_CleanupLeavesNothing ==
    (genLog # <<>> /\ genLog[Len(genLog)].source = 0) =>
        /\ \A st \in Stems : thumbFiles[st] = 0
        /\ frameFiles = {}

\* C36: once shutdown() has returned, the in-memory cache of handles is
\* empty: no worker adds an entry to thumbnail_cache from then on.
C36_CacheEmptyAfterShutdown ==
    sdpc = "done" => \A p \in Paths : thumbnail_cache[p] = 0

\* C37: the thumbnail at the path generate_thumbnail(source) has just
\* returned was extracted from that source, never from another one.
C37_ThumbnailIsOfItsSource ==
    (genLog # <<>> /\ genLog[Len(genLog)].result >= 1) =>
        thumbFiles[Stem(genLog[Len(genLog)].source)] = genLog[Len(genLog)].source

\* C38: a call of generate_timeline_frames attempts at most as many frames
\* as the num_frames it was called with, on slow storage too.
C38_SlowStorageNeverAddsFrames ==
    \A k \in 1..Len(genLog) :
        "asked" \in DOMAIN genLog[k] =>
            /\ genLog[k].requested <= genLog[k].asked
            /\ genLog[k].extractions <= genLog[k].asked

\* C39: a worker marks the item it took done at most once.  A worker that
\* has called task_done() on the duplicate path (line 71) does not call it
\* again on its way back to the loop, and no task_done() finds the count of
\* unfinished tasks at zero and raises.
C39_TaskDoneAtMostOnce ==
    [][\A w \in Workers :
          /\ (pc[w] = "callback" /\ exc[w] = "continue" /\ pc'[w] # pc[w]) =>
                unfinished_tasks' = unfinished_tasks
          /\ exc'[w] # "duplicate"]_vars

====
